---------------------------- MODULE Spec2Model ----------------------------
(***************************************************************************)
(* Model of the weighted (Balancer-style) pricing functions of             *)
(* sx.balance: balancer::get_amount_out, balancer::get_amount_in and       *)
(* balancer::quote (src/balancer.hpp).                                     *)
(*                                                                         *)
(* The functions compute over uint64_t and over IEEE-754 double.  Both are *)
(* modelled at their real width: a uint64_t is a natural number below 2^64 *)
(* and unsigned arithmetic wraps modulo 2^64; a double is a 53-bit         *)
(* significand with a binary exponent, and every double operation is the   *)
(* exact result rounded to nearest, ties to even.  Numbers of that size do *)
(* not fit the model checker's machine integers, so a natural number is a  *)
(* sequence of limbs in base 2^15, least significant limb first, without   *)
(* high zero limbs (zero is the empty sequence).                           *)
(***************************************************************************)
EXTENDS Integers, Sequences, FiniteSets, TLC

(***************************************************************************)
(* Natural numbers of arbitrary size.                                      *)
(***************************************************************************)
LimbBits == 15

Base == 32768

Limb(a, i) == IF i <= Len(a) THEN a[i] ELSE 0

RECURSIVE Norm(_)
Norm(a) ==
  IF a = <<>> THEN <<>>
  ELSE IF a[Len(a)] = 0 THEN Norm(SubSeq(a, 1, Len(a) - 1))
  ELSE a

RECURSIVE BN(_)
BN(n) == IF n = 0 THEN <<>> ELSE <<n % Base>> \o BN(n \div Base)

Zero == <<>>

One == <<1>>

RECURSIVE AddFrom(_, _, _, _)
AddFrom(a, b, i, c) ==
  IF i > Len(a) /\ i > Len(b)
  THEN (IF c = 0 THEN <<>> ELSE <<c>>)
  ELSE LET s == Limb(a, i) + Limb(b, i) + c
       IN  <<s % Base>> \o AddFrom(a, b, i + 1, s \div Base)

Add(a, b) == AddFrom(a, b, 1, 0)

RECURSIVE CmpFrom(_, _, _)
CmpFrom(a, b, i) ==
  IF i = 0 THEN 0
  ELSE IF a[i] < b[i] THEN -1
  ELSE IF a[i] > b[i] THEN 1
  ELSE CmpFrom(a, b, i - 1)

\* -1, 0 or 1 as a < b, a = b, a > b
Cmp(a, b) ==
  IF Len(a) < Len(b) THEN -1
  ELSE IF Len(a) > Len(b) THEN 1
  ELSE CmpFrom(a, b, Len(a))

Less(a, b) == Cmp(a, b) < 0

Leq(a, b) == Cmp(a, b) <= 0

RECURSIVE SubFrom(_, _, _, _)
SubFrom(a, b, i, w) ==
  IF i > Len(a) THEN <<>>
  ELSE LET d == a[i] - Limb(b, i) - w
       IN  IF d < 0 THEN <<d + Base>> \o SubFrom(a, b, i + 1, 1)
           ELSE <<d>> \o SubFrom(a, b, i + 1, 0)

\* a - b for a >= b
Sub(a, b) == Norm(SubFrom(a, b, 1, 0))

RECURSIVE MulSmallFrom(_, _, _, _)
MulSmallFrom(a, k, i, c) ==
  IF i > Len(a) THEN (IF c = 0 THEN <<>> ELSE <<c>>)
  ELSE LET p == a[i] * k + c
       IN  <<p % Base>> \o MulSmallFrom(a, k, i + 1, p \div Base)

\* a * k for 0 <= k < Base
MulSmall(a, k) == IF k = 0 THEN <<>> ELSE MulSmallFrom(a, k, 1, 0)

RECURSIVE Zeros(_)
Zeros(n) == IF n = 0 THEN <<>> ELSE <<0>> \o Zeros(n - 1)

ShiftLimbs(a, n) == IF a = <<>> THEN <<>> ELSE Zeros(n) \o a

RECURSIVE MulFrom(_, _, _)
MulFrom(a, b, i) ==
  IF i > Len(b) THEN <<>>
  ELSE Add(ShiftLimbs(MulSmall(a, b[i]), i - 1), MulFrom(a, b, i + 1))

Mul(a, b) == MulFrom(a, b, 1)

RECURSIVE PowNat(_, _)
PowNat(a, n) == IF n = 0 THEN One ELSE Mul(a, PowNat(a, n - 1))

\* a * 2^k
ShiftL(a, k) == ShiftLimbs(MulSmall(a, 2 ^ (k % LimbBits)), k \div LimbBits)

RECURSIVE DivSmallFrom(_, _, _, _)
DivSmallFrom(a, d, i, r) ==
  IF i = 0 THEN <<>>
  ELSE LET x == r * Base + a[i]
       IN  DivSmallFrom(a, d, i - 1, x % d) \o <<x \div d>>

\* a \div d for 0 < d <= Base
DivSmall(a, d) == Norm(DivSmallFrom(a, d, Len(a), 0))

\* a \div 2^k
ShiftR(a, k) ==
  IF k \div LimbBits >= Len(a) THEN <<>>
  ELSE DivSmall(SubSeq(a, k \div LimbBits + 1, Len(a)), 2 ^ (k % LimbBits))

\* a % 2^k
LowBits(a, k) ==
  IF k \div LimbBits >= Len(a) THEN a
  ELSE Norm(SubSeq(a, 1, k \div LimbBits)
            \o <<a[k \div LimbBits + 1] % (2 ^ (k % LimbBits))>>)

RECURSIVE SmallBitLen(_)
SmallBitLen(n) == IF n = 0 THEN 0 ELSE 1 + SmallBitLen(n \div 2)

BitLen(a) ==
  IF a = <<>> THEN 0 ELSE (Len(a) - 1) * LimbBits + SmallBitLen(a[Len(a)])

IsOdd(a) == a # <<>> /\ a[1] % 2 = 1

Pow2(k) == ShiftL(One, k)

\* Long division (Knuth's algorithm D), one limb of the dividend at a time.
\* The divisor b is normalised (its top limb is at least Base/2), so the
\* quotient limb estimated from the two top limbs of the remainder r and the
\* top limb of b is at most 2 too large; StepDown corrects it.
StepDown(r, b, q) == IF q > 0 /\ Less(r, MulSmall(b, q)) THEN q - 1 ELSE q

QuotLimb(r, b) ==
  LET n    == Len(b)
      top  == Limb(r, n + 1) * Base + Limb(r, n)
      qhat == IF top \div b[n] > Base - 1 THEN Base - 1 ELSE top \div b[n]
  IN  StepDown(r, b, StepDown(r, b, StepDown(r, b, qhat)))

RECURSIVE DivModFrom(_, _, _, _, _)
DivModFrom(a, b, i, q, r) ==
  IF i = 0 THEN <<Norm(q), r>>
  ELSE LET r2 == Norm(<<a[i]>> \o r)
           ql == QuotLimb(r2, b)
           r3 == Sub(r2, MulSmall(b, ql))
       IN  IF Less(r3, b) THEN DivModFrom(a, b, i - 1, <<ql>> \o q, r3)
           ELSE <<<<>>, <<>>>>  \* never: the remainder stays below the divisor

\* <<a \div b, a % b>> for b > 0
DivMod(a, b) ==
  LET sh == LimbBits - SmallBitLen(b[Len(b)])
      qr == DivModFrom(ShiftL(a, sh), ShiftL(b, sh), Len(ShiftL(a, sh)), <<>>, <<>>)
  IN  <<qr[1], ShiftR(qr[2], sh)>>

Div(a, b) == DivMod(a, b)[1]

\* Floor square root by Newton's iteration from above: <<root, exact>>
RECURSIVE ISqrtFrom(_, _)
ISqrtFrom(n, r) ==
  LET y == ShiftR(Add(r, Div(n, r)), 1)
  IN  IF Less(y, r) THEN ISqrtFrom(n, y) ELSE <<r, Mul(r, r) = n>>

ISqrt(n) ==
  IF n = <<>> THEN <<<<>>, TRUE>> ELSE ISqrtFrom(n, Pow2((BitLen(n) + 1) \div 2))

\* Number of zero bits below the lowest one bit of a > 0
RECURSIVE SmallTrailingZeros(_)
SmallTrailingZeros(n) == IF n % 2 = 1 THEN 0 ELSE 1 + SmallTrailingZeros(n \div 2)

RECURSIVE TrailingZerosFrom(_, _)
TrailingZerosFrom(a, i) ==
  IF a[i] = 0 THEN LimbBits + TrailingZerosFrom(a, i + 1)
  ELSE SmallTrailingZeros(a[i])

TrailingZeros(a) == TrailingZerosFrom(a, 1)

\* The value of a number of at most two limbs as a machine integer
ToInt(a) == Limb(a, 1) + Base * Limb(a, 2)

(***************************************************************************)
(* IEEE-754 binary64 (the C++ double).  None of the functions modelled     *)
(* produces a negative double: every operand is a converted uint64_t, a    *)
(* quotient or product of such, or 1 - p with 0 <= p <= 1.  A finite       *)
(* double is therefore m * 2^e with m = 0 or 2^52 <= m < 2^53; "inf" is    *)
(* +infinity and "nan" is not-a-number.  The exponents that occur stay far *)
(* inside the binary64 range (|e| < 1022 - 64 * 4), so neither overflow to *)
(* infinity nor subnormal numbers are modelled.                            *)
(***************************************************************************)
MantBits == 53

Fin(m, e) == [k |-> "fin", m |-> m, e |-> e]

DZero == [k |-> "fin", m |-> <<>>, e |-> 0]

DInf == [k |-> "inf", m |-> <<>>, e |-> 0]

DNaN == [k |-> "nan", m |-> <<>>, e |-> 0]

DOne == Fin(Pow2(MantBits - 1), 1 - MantBits)

IsDZero(d) == d.k = "fin" /\ d.m = <<>>

\* q * 2^e for q of 53 or 54 bits (54 bits only as 2^53, after a carry)
Renorm(q, e) == IF BitLen(q) > MantBits THEN Fin(ShiftR(q, 1), e + 1) ELSE Fin(q, e)

\* The double nearest to (m + s) * 2^e, ties to even, where 0 < s < 1 when
\* sticky and s = 0 otherwise; a sticky m has at least 55 bits.
Round(m, e, sticky) ==
  IF m = <<>> THEN DZero
  ELSE IF BitLen(m) <= MantBits
  THEN Fin(ShiftL(m, MantBits - BitLen(m)), e - (MantBits - BitLen(m)))
  ELSE LET sh  == BitLen(m) - MantBits
           q   == ShiftR(m, sh)
           c   == Cmp(LowBits(m, sh), Pow2(sh - 1))
           up  == c > 0 \/ (c = 0 /\ (sticky \/ IsOdd(q)))
       IN  Renorm(IF up THEN Add(q, One) ELSE q, e + sh)

\* One of the two doubles around (m + s) * 2^e, the upper one when up, or the
\* value itself when it is a double.  m has at least 53 bits.
Faithful(m, e, sticky, up) ==
  LET sh      == BitLen(m) - MantBits
      q       == ShiftR(m, sh)
      inexact == sticky \/ LowBits(m, sh) # <<>>
  IN  Renorm(IF inexact /\ up THEN Add(q, One) ELSE q, e + sh)

\* static_cast<double>(n) and the implicit conversion of a uint64_t operand
FromU64(n) == Round(n, 0, FALSE)

DMul(a, b) ==
  IF a.k = "nan" \/ b.k = "nan" THEN DNaN
  ELSE IF a.k = "inf" \/ b.k = "inf"
  THEN (IF IsDZero(a) \/ IsDZero(b) THEN DNaN ELSE DInf)
  ELSE IF a.m = <<>> \/ b.m = <<>> THEN DZero
  ELSE Round(Mul(a.m, b.m), a.e + b.e, FALSE)

DDiv(a, b) ==
  IF a.k = "nan" \/ b.k = "nan" THEN DNaN
  ELSE IF a.k = "inf" THEN (IF b.k = "inf" THEN DNaN ELSE DInf)
  ELSE IF b.k = "inf" THEN DZero
  ELSE IF b.m = <<>> THEN (IF a.m = <<>> THEN DNaN ELSE DInf)
  ELSE IF a.m = <<>> THEN DZero
  ELSE LET qr == DivMod(ShiftL(a.m, MantBits + 3), b.m)
       IN  Round(qr[1], a.e - b.e - (MantBits + 3), qr[2] # <<>>)

\* The sum of finite non-zero hi and lo, hi.e >= lo.e.  An addend below a
\* quarter of the last place of hi only makes the sum inexact.
AddOrdered(hi, lo) ==
  IF hi.e - lo.e > MantBits + 2
  THEN Round(ShiftL(hi.m, 2), hi.e - 2, TRUE)
  ELSE Round(Add(ShiftL(hi.m, hi.e - lo.e), lo.m), lo.e, FALSE)

DAdd(a, b) ==
  IF a.k = "nan" \/ b.k = "nan" THEN DNaN
  ELSE IF a.k = "inf" \/ b.k = "inf" THEN DInf
  ELSE IF a.m = <<>> THEN b
  ELSE IF b.m = <<>> THEN a
  ELSE IF a.e >= b.e THEN AddOrdered(a, b) ELSE AddOrdered(b, a)

\* a - b for finite a >= b >= 0 (or NaN)
DSub(a, b) ==
  IF a.k = "nan" \/ b.k = "nan" THEN DNaN
  ELSE IF b.m = <<>> THEN a
  ELSE IF a.e - b.e > MantBits + 3
  THEN Round(Sub(ShiftL(a.m, 3), One), a.e - 3, TRUE)
  ELSE Round(Sub(ShiftL(a.m, a.e - b.e), b.m), b.e, FALSE)

\* The floor of the 2^k-th root of n, by k square roots: <<root, exact>>
RECURSIVE IRoot(_, _)
IRoot(n, k) ==
  IF k = 0 THEN <<n, TRUE>>
  ELSE LET r == ISqrt(n)
           t == IRoot(r[1], k - 1)
       IN  <<t[1], r[2] /\ t[2]>>

\* x^(n / 2^k) for finite x > 0, within one unit in the last place: the doubles
\* just below and just above the power, or the power when it is a double
PowDyadic(x, n, k) ==
  LET N  == PowNat(x.m, n)
      E  == x.e * n
      s0 == IF (MantBits + 2) * (2 ^ k) > BitLen(N)
            THEN (MantBits + 2) * (2 ^ k) - BitLen(N) ELSE 0
      s  == s0 + ((E - s0) % (2 ^ k))
      r  == IRoot(ShiftL(N, s), k)
  IN  {Faithful(r[1], (E - s) \div (2 ^ k), ~r[2], up) : up \in BOOLEAN}

\* pow(x, y) of <math.h> for 0 <= x <= 1 or x NaN, and finite y > 0: the set
\* of doubles a library may return.  The library's pow is accurate to less
\* than one unit in the last place: it returns the exact power when that is a
\* double and otherwise one of the two doubles around it.  y is
\* odd * 2^(y.e + its trailing zeros): a small integer, or a small integer
\* over a small power of two.
pow(x, y) ==
  IF x.k = "nan" THEN {DNaN}
  ELSE IF x.m = <<>> THEN {DZero}
  ELSE LET t == TrailingZeros(y.m)
           s == y.e + t
       IN  IF s >= 0
           THEN PowDyadic(x, ToInt(ShiftL(ShiftR(y.m, t), s)), 0)
           ELSE PowDyadic(x, ToInt(ShiftR(y.m, t)), -s)

(***************************************************************************)
(* uint64_t.                                                               *)
(***************************************************************************)
WordBits == 64

U64Mul(a, b) == LowBits(Mul(a, b), WordBits)

U64Sub(a, b) == IF Leq(b, a) THEN Sub(a, b) ELSE Sub(Pow2(WordBits), Sub(b, a))

MaxU64 == Sub(Pow2(WordBits), One)

(***************************************************************************)
(* What a call does: it returns a value, it fails a check with a message   *)
(* (eosio::check aborts the transaction), or it traps.  A function is      *)
(* modelled by the set of outcomes a call of it can have.                  *)
(***************************************************************************)
Ok(v) == [kind |-> "ok", val |-> v, msg |-> ""]

Error(m) == [kind |-> "error", val |-> <<>>, msg |-> m]

Trap == [kind |-> "trap", val |-> <<>>, msg |-> ""]

\* Undefined behaviour (a double outside the range of uint64_t converted to
\* uint64_t, an integer division by zero): the WebAssembly build traps, other
\* builds go on with some value (x86-64 gives 0 or 2^63, AArch64 saturates).
Undefined == {Trap, Ok(<<>>), Ok(Pow2(WordBits - 1)), Ok(MaxU64)}

\* The conversion of a double to uint64_t: the value truncated toward zero,
\* undefined when that is no uint64_t.
ToU64(d) ==
  IF d.k # "fin" THEN Undefined
  ELSE IF d.m = <<>> THEN {Ok(<<>>)}
  ELSE IF d.e + MantBits > WordBits THEN Undefined
  ELSE IF d.e >= 0 THEN {Ok(ShiftL(d.m, d.e))}
  ELSE {Ok(ShiftR(d.m, -d.e))}

\* safemath::mul of sx.safemath: the product, checked against the 64-bit range
safemath_mul(a, b) ==
  IF BitLen(Mul(a, b)) > WordBits THEN Error("Overflow") ELSE Ok(Mul(a, b))

(***************************************************************************)
(* namespace balancer                                                      *)
(***************************************************************************)
INSUFFICIENT_INPUT_AMOUNT == "SX.Balancer: INSUFFICIENT_INPUT_AMOUNT"

INSUFFICIENT_OUTPUT_AMOUNT == "SX.Balancer: INSUFFICIENT_OUTPUT_AMOUNT"

INSUFFICIENT_AMOUNT == "SX.Balancer: INSUFFICIENT_AMOUNT"

INSUFFICIENT_LIQUIDITY == "SX.Balancer: INSUFFICIENT_LIQUIDITY"

INVALID_WEIGHT == "SX.Balancer: INVALID_WEIGHT"

get_amount_out(amount_in, reserve_in, reserve_weight_in, reserve_out, reserve_weight_out, fee) ==
  IF amount_in = <<>> THEN {Error(INSUFFICIENT_INPUT_AMOUNT)}
  ELSE IF reserve_in = <<>> \/ reserve_out = <<>>
  THEN {Error(INSUFFICIENT_LIQUIDITY)}
  ELSE IF reserve_weight_in = <<>> \/ reserve_weight_out = <<>>
  THEN {Error(INVALID_WEIGHT)}
  ELSE LET weight_ratio == DDiv(FromU64(reserve_weight_in), FromU64(reserve_weight_out))
           amount_in_with_fee == FromU64(U64Mul(amount_in, BN(10000 - fee)))
           scaled == FromU64(U64Mul(reserve_in, BN(10000)))
           numerator == DDiv(scaled, DAdd(scaled, amount_in_with_fee))
       IN  UNION {ToU64(DMul(FromU64(reserve_out), DSub(DOne, p))) :
                    p \in pow(numerator, weight_ratio)}

get_amount_in(amount_out, reserve_in, reserve_weight_in, reserve_out, reserve_weight_out, fee) ==
  IF amount_out = <<>> THEN {Error(INSUFFICIENT_OUTPUT_AMOUNT)}
  ELSE IF reserve_in = <<>> \/ reserve_out = <<>>
  THEN {Error(INSUFFICIENT_LIQUIDITY)}
  ELSE LET weight_ratio == DDiv(FromU64(reserve_weight_in), FromU64(reserve_weight_out))
           numerator == DMul(DMul(FromU64(reserve_in), FromU64(amount_out)),
                             FromU64(BN(10000)))
           denominator == DMul(FromU64(U64Mul(U64Sub(reserve_out, amount_out),
                                              BN(10000 - fee))),
                               weight_ratio)
       IN  ToU64(DAdd(DOne, DDiv(numerator, denominator)))

\* reserve * 10000 / reserve_weight, in uint64_t, for reserve_weight > 0
ScaledReserve(reserve, reserve_weight) ==
  Div(U64Mul(reserve, BN(10000)), reserve_weight)

\* quote as it would be without its check of the reserves
quote_without_liquidity_check(amount_a, reserve_a, reserve_weight_a, reserve_b, reserve_weight_b) ==
  IF amount_a = <<>> THEN {Error(INSUFFICIENT_AMOUNT)}
  ELSE IF reserve_weight_b = <<>> THEN Undefined
  ELSE LET product == safemath_mul(amount_a, ScaledReserve(reserve_b, reserve_weight_b))
       IN  IF reserve_weight_a = <<>>
           THEN (IF product.kind = "error" THEN {product} ELSE {}) \cup Undefined
           ELSE IF product.kind = "error" THEN {product}
           ELSE IF ScaledReserve(reserve_a, reserve_weight_a) = <<>> THEN Undefined
           ELSE {Ok(Div(product.val, ScaledReserve(reserve_a, reserve_weight_a)))}

\* The operands of the final division are evaluated in either order: with
\* reserve_weight_a = 0 the divisor is undefined, and safemath::mul may or may
\* not have failed before it is computed.
quote(amount_a, reserve_a, reserve_weight_a, reserve_b, reserve_weight_b) ==
  IF amount_a = <<>> THEN {Error(INSUFFICIENT_AMOUNT)}
  ELSE IF reserve_a = <<>> \/ reserve_b = <<>>
  THEN {Error(INSUFFICIENT_LIQUIDITY)}
  ELSE IF reserve_weight_b = <<>> THEN Undefined
  ELSE LET product == safemath_mul(amount_a, ScaledReserve(reserve_b, reserve_weight_b))
       IN  IF reserve_weight_a = <<>>
           THEN (IF product.kind = "error" THEN {product} ELSE {}) \cup Undefined
           ELSE IF product.kind = "error" THEN {product}
           ELSE IF ScaledReserve(reserve_a, reserve_weight_a) = <<>> THEN Undefined
           ELSE {Ok(Div(product.val, ScaledReserve(reserve_a, reserve_weight_a)))}

(***************************************************************************)
(* Reference formulas                                                      *)
(***************************************************************************)
\* The formulas of the three functions over unbounded integers: no product
\* and no difference is reduced modulo 2^64.  For positive amounts, reserves
\* and weights, amount_out < reserve_out and a divisor that is not zero.
unbounded_get_amount_out(amount_in, reserve_in, reserve_weight_in, reserve_out, reserve_weight_out, fee) ==
  LET weight_ratio == DDiv(FromU64(reserve_weight_in), FromU64(reserve_weight_out))
      amount_in_with_fee == Round(Mul(amount_in, BN(10000 - fee)), 0, FALSE)
      scaled == Round(Mul(reserve_in, BN(10000)), 0, FALSE)
      numerator == DDiv(scaled, DAdd(scaled, amount_in_with_fee))
  IN  UNION {ToU64(DMul(FromU64(reserve_out), DSub(DOne, p))) :
               p \in pow(numerator, weight_ratio)}

unbounded_get_amount_in(amount_out, reserve_in, reserve_weight_in, reserve_out, reserve_weight_out, fee) ==
  LET weight_ratio == DDiv(FromU64(reserve_weight_in), FromU64(reserve_weight_out))
      numerator == DMul(DMul(FromU64(reserve_in), FromU64(amount_out)),
                        FromU64(BN(10000)))
      denominator == DMul(Round(Mul(Sub(reserve_out, amount_out), BN(10000 - fee)),
                                0, FALSE),
                          weight_ratio)
  IN  ToU64(DAdd(DOne, DDiv(numerator, denominator)))

unbounded_quote(amount_a, reserve_a, reserve_weight_a, reserve_b, reserve_weight_b) ==
  Div(Mul(amount_a, Div(Mul(reserve_b, BN(10000)), reserve_weight_b)),
      Div(Mul(reserve_a, BN(10000)), reserve_weight_a))

\* The constant-product output: amount_in less the fee times reserve_out, over
\* reserve_in plus amount_in less the fee, rounded down
ConstantProductOut(amount_in, reserve_in, reserve_out, fee) ==
  LET amount_in_with_fee == Mul(amount_in, BN(10000 - fee))
      numerator == Mul(amount_in_with_fee, reserve_out)
      denominator == Add(Mul(reserve_in, BN(10000)), amount_in_with_fee)
  IN  Div(numerator, denominator)

\* The constant-product quote: amount_a * reserve_b / reserve_a, rounded down
ConstantProductQuote(amount_a, reserve_a, reserve_b) == Div(Mul(amount_a, reserve_b), reserve_a)

(***************************************************************************)
(* The host.  The functions keep no state: the state is what the calling   *)
(* contract holds, a pool of two reserves with their weights, the fee, the *)
(* amount of the request at hand, and the calls made so far with their     *)
(* outcomes.                                                               *)
(***************************************************************************)
VARIABLES amount, reserve_a, reserve_weight_a, reserve_b, reserve_weight_b,
          fee, calls

vars == <<amount, reserve_a, reserve_weight_a, reserve_b, reserve_weight_b,
          fee, calls>>

\* The least uint64_t whose product with 10000 does not fit 64 bits
Wrap == Add(Div(Pow2(WordBits), BN(10000)), One)

Amounts == {Zero, One, BN(2), BN(100), Wrap}

Reserves == {Zero, BN(3), BN(100), Wrap}

\* <<weight of a, weight of b>>.  The ratios are 1, 2 and 1/2, which pow
\* above covers; 50000 : 50000 is the documented example.
WeightPairs ==
  {<<One, One>>, <<BN(50000), BN(50000)>>, <<One, BN(2)>>, <<BN(2), One>>,
   <<Zero, One>>, <<One, Zero>>}

\* uint8_t fee; 30 is the default
Fees == {0, 30}

Call(op, amt, rin, win, rout, wout, f, res) ==
  [op |-> op, amount |-> amt, reserve_in |-> rin, weight_in |-> win,
   reserve_out |-> rout, weight_out |-> wout, fee |-> f, res |-> res]

\* The call of op with amt on the pool, a to b, returned res
Record(op, amt, res) ==
  /\ calls' = Append(calls, Call(op, amt, reserve_a, reserve_weight_a,
                                 reserve_b, reserve_weight_b, fee, res))
  /\ UNCHANGED <<amount, reserve_a, reserve_weight_a, reserve_b,
                 reserve_weight_b, fee>>

Init ==
  /\ amount \in Amounts
  /\ reserve_a \in Reserves
  /\ reserve_b \in Reserves
  /\ \E w \in WeightPairs : reserve_weight_a = w[1] /\ reserve_weight_b = w[2]
  /\ fee \in Fees
  /\ calls = <<>>

\* The host asks for the output of the requested input amount.
GetAmountOut ==
  /\ calls = <<>>
  /\ \E res \in get_amount_out(amount, reserve_a, reserve_weight_a, reserve_b, reserve_weight_b, fee) :
       Record("get_amount_out", amount, res)

\* The host asks for the input that the requested output amount takes.
GetAmountIn ==
  /\ calls = <<>>
  /\ \E res \in get_amount_in(amount, reserve_a, reserve_weight_a, reserve_b, reserve_weight_b, fee) :
       Record("get_amount_in", amount, res)

\* The host asks for the quote of the requested amount.
Quote ==
  /\ calls = <<>>
  /\ \E res \in quote(amount, reserve_a, reserve_weight_a, reserve_b, reserve_weight_b) :
       Record("quote", amount, res)

\* The host feeds the output get_amount_out returned to get_amount_in, with
\* the same reserves, weights and fee.
InvertOut ==
  /\ Len(calls) = 1
  /\ calls[1].op = "get_amount_out"
  /\ calls[1].res.kind = "ok"
  /\ \E res \in get_amount_in(calls[1].res.val, reserve_a, reserve_weight_a, reserve_b, reserve_weight_b, fee) :
       Record("get_amount_in", calls[1].res.val, res)

\* The host feeds the input get_amount_in returned to get_amount_out, with
\* the same reserves, weights and fee.
InvertIn ==
  /\ Len(calls) = 1
  /\ calls[1].op = "get_amount_in"
  /\ calls[1].res.kind = "ok"
  /\ \E res \in get_amount_out(calls[1].res.val, reserve_a, reserve_weight_a, reserve_b, reserve_weight_b, fee) :
       Record("get_amount_out", calls[1].res.val, res)

\* The host asks get_amount_out again, for a larger input amount.
Again ==
  /\ Len(calls) = 1
  /\ calls[1].op = "get_amount_out"
  /\ \E a \in Amounts :
       /\ Less(calls[1].amount, a)
       /\ \E res \in get_amount_out(a, reserve_a, reserve_weight_a, reserve_b, reserve_weight_b, fee) :
            Record("get_amount_out", a, res)

Next == GetAmountOut \/ GetAmountIn \/ Quote \/ InvertOut \/ InvertIn \/ Again

Spec == Init /\ [][Next]_vars

(***************************************************************************)
(* The host trading against the pool: it prices a trade with               *)
(* get_amount_out, adds the input to the reserve of the side paid in and   *)
(* removes the output from the other side.  A call that fails or traps     *)
(* aborts the transaction, and so does a trade the host's own checked      *)
(* arithmetic refuses: the reserves stay.                                  *)
(***************************************************************************)
MaxTrades == 2

PoolAmounts == {One, BN(100), Wrap}

PoolReserves == {BN(3), BN(100)}

PoolWeightPairs == {<<One, One>>, <<One, BN(2)>>, <<BN(2), One>>}

Applies(amt, rin, rout, res) ==
  /\ res.kind = "ok"
  /\ Leq(res.val, rout)
  /\ Leq(Add(rin, amt), MaxU64)

Trade(dir, amt, rin, win, rout, wout, res) ==
  [op |-> dir, amount |-> amt, reserve_in |-> rin, weight_in |-> win,
   reserve_out |-> rout, weight_out |-> wout, fee |-> fee, res |-> res,
   applied |-> Applies(amt, rin, rout, res)]

InitPool ==
  /\ amount = Zero
  /\ reserve_a \in PoolReserves
  /\ reserve_b \in PoolReserves
  /\ \E w \in PoolWeightPairs : reserve_weight_a = w[1] /\ reserve_weight_b = w[2]
  /\ fee \in Fees
  /\ calls = <<>>

\* A trade of a for b
TradeAB ==
  /\ Len(calls) < MaxTrades
  /\ \E amt \in PoolAmounts :
       \E res \in get_amount_out(amt, reserve_a, reserve_weight_a, reserve_b,
                                 reserve_weight_b, fee) :
         /\ calls' = Append(calls, Trade("a_for_b", amt, reserve_a, reserve_weight_a,
                                         reserve_b, reserve_weight_b, res))
         /\ IF Applies(amt, reserve_a, reserve_b, res)
            THEN /\ reserve_a' = Add(reserve_a, amt)
                 /\ reserve_b' = Sub(reserve_b, res.val)
            ELSE UNCHANGED <<reserve_a, reserve_b>>
  /\ UNCHANGED <<amount, reserve_weight_a, reserve_weight_b, fee>>

\* A trade of b for a
TradeBA ==
  /\ Len(calls) < MaxTrades
  /\ \E amt \in PoolAmounts :
       \E res \in get_amount_out(amt, reserve_b, reserve_weight_b, reserve_a,
                                 reserve_weight_a, fee) :
         /\ calls' = Append(calls, Trade("b_for_a", amt, reserve_b, reserve_weight_b,
                                         reserve_a, reserve_weight_a, res))
         /\ IF Applies(amt, reserve_b, reserve_a, res)
            THEN /\ reserve_b' = Add(reserve_b, amt)
                 /\ reserve_a' = Sub(reserve_a, res.val)
            ELSE UNCHANGED <<reserve_a, reserve_b>>
  /\ UNCHANGED <<amount, reserve_weight_a, reserve_weight_b, fee>>

NextPool == TradeAB \/ TradeBA

SpecPool == InitPool /\ [][NextPool]_vars


(***************************************************************************)
(* The properties.  A state holds the calls made so far: a property of a   *)
(* function is a property of every call on record.                         *)
(***************************************************************************)
Positive(c) == c.amount # <<>> /\ c.reserve_in # <<>> /\ c.reserve_out # <<>>

Weighted(c) == c.weight_in # <<>> /\ c.weight_out # <<>>

AmountError(op) ==
  CASE op = "get_amount_out" -> INSUFFICIENT_INPUT_AMOUNT
    [] op = "get_amount_in" -> INSUFFICIENT_OUTPUT_AMOUNT
    [] op = "quote" -> INSUFFICIENT_AMOUNT

\* C9: a call of any of the three functions with a zero amount fails with the
\* function's amount message, whatever the other arguments, and a call with
\* a positive amount and a zero reserve fails with INSUFFICIENT_LIQUIDITY.
C9_ZeroAmountsAndReservesRejected ==
  \A i \in 1..Len(calls) :
    /\ calls[i].amount = <<>> => calls[i].res = Error(AmountError(calls[i].op))
    /\ (calls[i].amount # <<>> /\ (calls[i].reserve_in = <<>> \/ calls[i].reserve_out = <<>>))
         => calls[i].res = Error(INSUFFICIENT_LIQUIDITY)

\* A zero amount that get_amount_out returned was fed to get_amount_in and
\* rejected, on a pool whose reserves are positive.
C9_Witness_ZeroAmountRejected ==
  /\ Len(calls) = 2
  /\ calls[1].op = "get_amount_out"
  /\ calls[1].res = Ok(<<>>)
  /\ calls[2].op = "get_amount_in"
  /\ calls[2].amount = <<>>
  /\ calls[2].res = Error(INSUFFICIENT_OUTPUT_AMOUNT)

\* C1: a call with a positive amount, positive reserves and a zero weight
\* fails with INVALID_WEIGHT.
C1_ZeroWeightRejected ==
  \A i \in 1..Len(calls) :
    (Positive(calls[i]) /\ ~Weighted(calls[i])) => calls[i].res = Error(INVALID_WEIGHT)

\* C2: get_amount_in asked for the whole reserve_out or more, with a positive
\* amount, positive reserves and positive weights, fails with a message.
C2_OutputAtLeastReserveRejected ==
  \A i \in 1..Len(calls) :
    (/\ calls[i].op = "get_amount_in"
     /\ Positive(calls[i])
     /\ Weighted(calls[i])
     /\ Leq(calls[i].reserve_out, calls[i].amount)) => calls[i].res.kind = "error"


\* The arguments of call c are in the domain of its function's formula.
InDomain(c) ==
  /\ Positive(c)
  /\ Weighted(c)
  /\ c.op = "get_amount_in" => Less(c.amount, c.reserve_out)
  /\ c.op = "quote" => Div(Mul(c.reserve_in, BN(10000)), c.weight_in) # <<>>

\* What call c returns when its formula is computed over unbounded integers
Unbounded(c) ==
  CASE c.op = "get_amount_out" ->
         unbounded_get_amount_out(c.amount, c.reserve_in, c.weight_in, c.reserve_out, c.weight_out, c.fee)
    [] c.op = "get_amount_in" ->
         unbounded_get_amount_in(c.amount, c.reserve_in, c.weight_in, c.reserve_out, c.weight_out, c.fee)
    [] c.op = "quote" ->
         {Ok(unbounded_quote(c.amount, c.reserve_in, c.weight_in, c.reserve_out, c.weight_out))}

\* C3: a call whose arguments are in the domain of the formula returns what
\* the formula gives over unbounded integers, or fails with Overflow.
C3_NoSilentWrap ==
  \A i \in 1..Len(calls) :
    InDomain(calls[i]) => calls[i].res = Error("Overflow") \/ calls[i].res \in Unbounded(calls[i])

\* a and b differ by at most d
Within(a, b, d) == Leq(a, Add(b, d)) /\ Leq(b, Add(a, d))

\* C7: with equal positive weights, positive amounts and positive reserves,
\* get_amount_out returns the constant-product output within 2 units and
\* quote returns the constant-product quote within 2 units.
C7_EqualWeightsMatchConstantProduct ==
  \A i \in 1..Len(calls) :
    (Positive(calls[i]) /\ Weighted(calls[i]) /\ calls[i].weight_in = calls[i].weight_out) =>
      /\ calls[i].op = "get_amount_out" =>
           /\ calls[i].res.kind = "ok"
           /\ Within(calls[i].res.val, ConstantProductOut(calls[i].amount, calls[i].reserve_in, calls[i].reserve_out, calls[i].fee), BN(2))
      /\ calls[i].op = "quote" =>
           /\ calls[i].res.kind = "ok"
           /\ Within(calls[i].res.val, ConstantProductQuote(calls[i].amount, calls[i].reserve_in, calls[i].reserve_out), BN(2))

\* C10: quote called with a positive amount, positive reserves and positive
\* weights has a divisor reserve_a * 10000 / reserve_weight_a that is not
\* zero, and returns an amount or fails with a message: it does not trap.
C10_QuoteDivisorNotZero ==
  \A i \in 1..Len(calls) :
    (calls[i].op = "quote" /\ Positive(calls[i]) /\ Weighted(calls[i])) =>
      /\ ScaledReserve(calls[i].reserve_in, calls[i].weight_in) # <<>>
      /\ calls[i].res.kind \in {"ok", "error"}

\* The second call on record was made with the amount the first one returned.
Inverted(first, second) ==
  /\ Len(calls) = 2
  /\ calls[1].op = first
  /\ calls[1].res.kind = "ok"
  /\ calls[2].op = second
  /\ calls[2].amount = calls[1].res.val

\* C5: for 0 < amount_out < reserve_out, positive reserves and positive
\* weights, get_amount_out of the input that get_amount_in returned is at
\* least amount_out.
C5_AmountInNeverUnderQuotes ==
  (/\ Inverted("get_amount_in", "get_amount_out")
   /\ Positive(calls[1])
   /\ Weighted(calls[1])
   /\ Less(calls[1].amount, calls[1].reserve_out)) =>
     /\ calls[2].res.kind = "ok"
     /\ Leq(calls[1].amount, calls[2].res.val)

\* C6: for a positive amount_in, positive reserves and positive weights, when
\* get_amount_out returns y with 0 < y < reserve_out, get_amount_in of y
\* returns at most amount_in.
C6_RoundTripAtMostInput ==
  (/\ Inverted("get_amount_out", "get_amount_in")
   /\ Positive(calls[1])
   /\ Weighted(calls[1])
   /\ calls[1].res.val # <<>>
   /\ Less(calls[1].res.val, calls[1].reserve_out)) =>
     /\ calls[2].res.kind = "ok"
     /\ Leq(calls[2].res.val, calls[1].amount)

\* C8: of two calls of get_amount_out with the same positive reserves,
\* positive weights and fee, the one with the larger positive amount_in
\* returns strictly more.
C8_AmountOutStrictlyIncreasing ==
  (/\ Len(calls) = 2
   /\ calls[1].op = "get_amount_out"
   /\ calls[2].op = "get_amount_out"
   /\ Positive(calls[1])
   /\ Weighted(calls[1])
   /\ Less(calls[1].amount, calls[2].amount)) =>
     /\ calls[1].res.kind = "ok"
     /\ calls[2].res.kind = "ok"
     /\ Less(calls[1].res.val, calls[2].res.val)

\* reserve_in^weight_in * reserve_out^weight_out
PoolValue(reserve_in, weight_in, reserve_out, weight_out) ==
  Mul(PowNat(reserve_in, ToInt(weight_in)), PowNat(reserve_out, ToInt(weight_out)))

\* C4: every trade the host applied left reserve_in^weight_in *
\* reserve_out^weight_out at least what it was before the trade, and left
\* reserve_out positive.
C4_PoolValueNeverDecreases ==
  \A i \in 1..Len(calls) :
    calls[i].applied =>
      /\ Leq(PoolValue(calls[i].reserve_in, calls[i].weight_in, calls[i].reserve_out, calls[i].weight_out),
             PoolValue(Add(calls[i].reserve_in, calls[i].amount), calls[i].weight_in,
                       Sub(calls[i].reserve_out, calls[i].res.val), calls[i].weight_out))
      /\ Sub(calls[i].reserve_out, calls[i].res.val) # <<>>

===============================================================================
